---------------------------- MODULE Spec2Model ----------------------------
(***************************************************************************)
(* A model of the message bus daemon entry point (bus/main.c) and of the   *)
(* DBusError primitive (dbus/dbus-errors.c).                                *)
(*                                                                         *)
(* C strings are sequences of one-character strings, so that strcmp,       *)
(* strstr, strchr, string append and integer parsing are computed on the   *)
(* characters.  A C pointer that may be NULL is a sequence of length at    *)
(* most one: << >> is NULL and <<v>> points to v.                          *)
(***************************************************************************)
EXTENDS Integers, Sequences, FiniteSets, TLC

(***************************************************************************)
(* Bounds of the model.                                                    *)
(***************************************************************************)
\* the largest number of command-line tokens after the program name
MaxArgs == 3

(***************************************************************************)
(* String literals of bus/main.c.                                          *)
(***************************************************************************)
S_help == <<"-", "-", "h", "e", "l", "p">>
S_h == <<"-", "h">>
S_q == <<"-", "?">>
S_version == <<"-", "-", "v", "e", "r", "s", "i", "o", "n">>
S_system == <<"-", "-", "s", "y", "s", "t", "e", "m">>
S_session == <<"-", "-", "s", "e", "s", "s", "i", "o", "n">>
S_config_file_eq == <<"-", "-", "c", "o", "n", "f", "i", "g", "-", "f", "i", "l", "e", "=">>
S_config_file == <<"-", "-", "c", "o", "n", "f", "i", "g", "-", "f", "i", "l", "e">>
S_print_address_eq == <<"-", "-", "p", "r", "i", "n", "t", "-", "a", "d", "d", "r", "e", "s", "s", "=">>
S_print_address == <<"-", "-", "p", "r", "i", "n", "t", "-", "a", "d", "d", "r", "e", "s", "s">>
S_newline == <<"\n">>

\* build-time configuration paths (their values are supplied by the build)
DBUS_SYSTEM_CONFIG_FILE == <<"/", "s">>
DBUS_SESSION_CONFIG_FILE == <<"/", "u">>

\* the largest value of the platform's int
_DBUS_INT_MAX == 2147483647

(***************************************************************************)
(* C string functions.                                                     *)
(***************************************************************************)
Min(S) == CHOOSE x \in S : \A y \in S : x <= y

\* strstr (haystack, needle): the 1-based index of the first occurrence of
\* needle in haystack, 0 (NULL) when there is none
StrStr(h, n) ==
  LET hits == {k \in 1..(Len(h) - Len(n) + 1) : SubSeq(h, k, k + Len(n) - 1) = n}
  IN IF Len(n) > Len(h) \/ hits = {} THEN 0 ELSE Min(hits)

\* strchr (s, c): the 1-based index of the first c in s, 0 (NULL) when none
StrChr(s, c) ==
  LET hits == {k \in 1..Len(s) : s[k] = c}
  IN IF hits = {} THEN 0 ELSE Min(hits)

\* file = strchr (arg, '='); ++file;   the text after the first '='
AfterEquals(a) == SubSeq(a, StrChr(a, "=") + 1, Len(a))

(***************************************************************************)
(* The else-if chain of main's argument loop: the branch that handles      *)
(* token a when the previous token is prev (NULL on the first iteration).  *)
(***************************************************************************)
ArgBranch_PrevFirst(a, prev) ==
  IF prev # << >> /\ prev[1] = S_print_address THEN "print_address_next"
  ELSE IF a = S_help \/ a = S_h \/ a = S_q THEN "help"
  ELSE IF a = S_version THEN "version"
  ELSE IF a = S_system THEN "system"
  ELSE IF a = S_session THEN "session"
  ELSE IF StrStr(a, S_config_file_eq) = 1 THEN "config_file_eq"
  ELSE IF prev # << >> /\ prev[1] = S_config_file THEN "config_file_next"
  ELSE IF a = S_config_file THEN "config_file_bare"
  ELSE IF StrStr(a, S_print_address_eq) = 1 THEN "print_address_eq"
  ELSE IF a = S_print_address THEN "print_address_bare"
  ELSE "unknown"

ArgBranch(a, prev) ==
  IF a = S_help \/ a = S_h \/ a = S_q THEN "help"
  ELSE IF a = S_version THEN "version"
  ELSE IF a = S_system THEN "system"
  ELSE IF a = S_session THEN "session"
  ELSE IF StrStr(a, S_config_file_eq) = 1 THEN "config_file_eq"
  ELSE IF prev # << >> /\ prev[1] = S_config_file THEN "config_file_next"
  ELSE IF a = S_config_file THEN "config_file_bare"
  ELSE IF StrStr(a, S_print_address_eq) = 1 THEN "print_address_eq"
  ELSE IF prev # << >> /\ prev[1] = S_print_address THEN "print_address_next"
  ELSE IF a = S_print_address THEN "print_address_bare"
  ELSE "unknown"

(***************************************************************************)
(* _dbus_string_parse_int: strtol in base 10 on the text from its start.   *)
(* The result is [ok, val, end]: ok is FALSE when no digits were found or  *)
(* the value does not fit a long; end is the number of characters          *)
(* consumed.  A long is kept as [neg, mag, big]: its sign, its magnitude   *)
(* while that is at most _DBUS_INT_MAX, and big when the magnitude is      *)
(* larger: such a value fits a long of 64 bits and overflows one of 32     *)
(* bits, for which strtol reports a range error and the parse fails.       *)
(***************************************************************************)
Digits == {"0", "1", "2", "3", "4", "5", "6", "7", "8", "9"}

DigitVal(c) ==
  CASE c = "0" -> 0 [] c = "1" -> 1 [] c = "2" -> 2 [] c = "3" -> 3
    [] c = "4" -> 4 [] c = "5" -> 5 [] c = "6" -> 6 [] c = "7" -> 7
    [] c = "8" -> 8 [] c = "9" -> 9

\* the digits of s from position p on: [mag, big, end]
RECURSIVE ParseDigits(_, _, _, _)
ParseDigits(s, p, mag, big) ==
  IF p > Len(s) \/ s[p] \notin Digits
  THEN [mag |-> mag, big |-> big, end |-> p - 1]
  ELSE LET d == DigitVal(s[p])
           over == big \/ mag > (_DBUS_INT_MAX - d) \div 10
       IN ParseDigits(s, p + 1, IF over THEN 0 ELSE mag * 10 + d, over)

_dbus_string_parse_int(s, bits) ==
  LET signed == Len(s) >= 1 /\ s[1] \in {"-", "+"}
      neg == Len(s) >= 1 /\ s[1] = "-"
      first == IF signed THEN 2 ELSE 1
      r == ParseDigits(s, first, 0, FALSE)
      nodigits == r.end < first
  IN [ok |-> ~nodigits /\ (r.big => bits = 64),
      val |-> [neg |-> neg /\ (r.mag > 0 \/ r.big), mag |-> r.mag, big |-> r.big],
      end |-> IF nodigits THEN 0 ELSE r.end]

\* val < 0 and val > _DBUS_INT_MAX on a long
LongNegative(v) == v.neg
LongAboveIntMax(v) == ~v.neg /\ v.big

(***************************************************************************)
(* The inputs of a run.                                                    *)
(***************************************************************************)
\* the command-line tokens a run may hold
Tokens ==
  { S_help, S_h, S_q, S_version, S_system, S_session,
    S_config_file, S_config_file_eq, S_config_file_eq \o <<"a">>,
    S_print_address, S_print_address_eq,
    S_print_address_eq \o <<"2">>, S_print_address_eq \o <<"3">>,
    S_print_address_eq \o <<"3", "x">>, S_print_address_eq \o <<"-", "1">>,
    S_print_address_eq \o <<"-", "0">>,
    S_print_address_eq \o <<"2", "1", "4", "7", "4", "8", "3", "6", "4", "8">>,
    <<"a">>, <<"3">>, << >> }

\* the listen addresses a constructed bus may report
Addresses == { <<"u", ":", "a">>, <<"t", ":", "b", "c">> }

\* the messages a failed construction may leave in the error
NewErrors == { "Failed to open config file", "Not enough memory available" }

SIGHUP == "SIGHUP"
SIGTERM == "SIGTERM"
Signals == {SIGHUP, SIGTERM}

(***************************************************************************)
(* The state of the process.                                               *)
(***************************************************************************)
(***************************************************************************)
(* dbus-errors.c.  The error names are the DBUS_ERROR_ macros, which the   *)
(* file takes from a header; they are written here as the names of the     *)
(* fallback table.  A string is the sequence of its characters.            *)
(***************************************************************************)
DBUS_ERROR_FAILED == <<"f", "a", "i", "l", "e", "d">>
DBUS_ERROR_NO_MEMORY == <<"n", "o", "-", "m", "e", "m", "o", "r", "y">>
DBUS_ERROR_IO_ERROR == <<"i", "o", "-", "e", "r", "r", "o", "r">>
DBUS_ERROR_BAD_ADDRESS == <<"b", "a", "d", "-", "a", "d", "d", "r", "e",
  "s", "s">>
DBUS_ERROR_NOT_SUPPORTED == <<"n", "o", "t", "-", "s", "u", "p", "p", "o",
  "r", "t", "e", "d">>
DBUS_ERROR_LIMITS_EXCEEDED == <<"l", "i", "m", "i", "t", "s", "-", "e", "x",
  "c", "e", "e", "d", "e", "d">>
DBUS_ERROR_ACCESS_DENIED == <<"a", "c", "c", "e", "s", "s", "-", "d", "e",
  "n", "i", "e", "d">>
DBUS_ERROR_AUTH_FAILED == <<"a", "u", "t", "h", "-", "f", "a", "i", "l",
  "e", "d">>
DBUS_ERROR_NO_SERVER == <<"n", "o", "-", "s", "e", "r", "v", "e", "r">>
DBUS_ERROR_TIMEOUT == <<"t", "i", "m", "e", "o", "u", "t">>
DBUS_ERROR_NO_NETWORK == <<"n", "o", "-", "n", "e", "t", "w", "o", "r", "k">>
DBUS_ERROR_ADDRESS_IN_USE == <<"a", "d", "d", "r", "e", "s", "s", "-", "i",
  "n", "-", "u", "s", "e">>
DBUS_ERROR_DISCONNECTED == <<"d", "i", "s", "c", "o", "n", "n", "e", "c",
  "t", "e", "d">>
DBUS_ERROR_INVALID_ARGS == <<"i", "n", "v", "a", "l", "i", "d", "-", "a",
  "r", "g", "s">>
DBUS_ERROR_NO_REPLY == <<"n", "o", "-", "r", "e", "p", "l", "y">>
DBUS_ERROR_FILE_NOT_FOUND == <<"f", "i", "l", "e", "-", "n", "o", "t", "-",
  "f", "o", "u", "n", "d">>

\* the texts message_from_error returns, lines 78-109
TEXT_FAILED ==
  <<"U", "n", "k", "n", "o", "w", "n", " ", "e", "r", "r", "o", "r">>
TEXT_NO_MEMORY ==
  <<"N", "o", "t", " ", "e", "n", "o", "u", "g", "h", " ", "m", "e", "m",
    "o", "r", "y", " ", "a", "v", "a", "i", "l", "a", "b", "l", "e">>
TEXT_IO_ERROR ==
  <<"E", "r", "r", "o", "r", " ", "r", "e", "a", "d", "i", "n", "g", " ",
    "o", "r", " ", "w", "r", "i", "t", "i", "n", "g", " ", "d", "a", "t",
    "a">>
TEXT_BAD_ADDRESS ==
  <<"C", "o", "u", "l", "d", " ", "n", "o", "t", " ", "p", "a", "r", "s",
    "e", " ", "a", "d", "d", "r", "e", "s", "s">>
TEXT_NOT_SUPPORTED ==
  <<"F", "e", "a", "t", "u", "r", "e", " ", "n", "o", "t", " ", "s", "u",
    "p", "p", "o", "r", "t", "e", "d">>
TEXT_LIMITS_EXCEEDED ==
  <<"R", "e", "s", "o", "u", "r", "c", "e", " ", "l", "i", "m", "i", "t",
    "s", " ", "e", "x", "c", "e", "e", "d", "e", "d">>
TEXT_ACCESS_DENIED ==
  <<"P", "e", "r", "m", "i", "s", "s", "i", "o", "n", " ", "d", "e", "n",
    "i", "e", "d">>
TEXT_AUTH_FAILED ==
  <<"C", "o", "u", "l", "d", " ", "n", "o", "t", " ", "a", "u", "t", "h",
    "e", "n", "t", "i", "c", "a", "t", "e", " ", "t", "o", " ", "s", "e",
    "r", "v", "e", "r">>
TEXT_NO_SERVER ==
  <<"N", "o", " ", "s", "e", "r", "v", "e", "r", " ", "a", "v", "a", "i",
    "l", "a", "b", "l", "e", " ", "a", "t", " ", "a", "d", "d", "r", "e",
    "s", "s">>
TEXT_TIMEOUT ==
  <<"C", "o", "n", "n", "e", "c", "t", "i", "o", "n", " ", "t", "i", "m",
    "e", "d", " ", "o", "u", "t">>
TEXT_NO_NETWORK ==
  <<"N", "e", "t", "w", "o", "r", "k", " ", "u", "n", "a", "v", "a", "i",
    "l", "a", "b", "l", "e">>
TEXT_ADDRESS_IN_USE ==
  <<"A", "d", "d", "r", "e", "s", "s", " ", "a", "l", "r", "e", "a", "d",
    "y", " ", "i", "n", " ", "u", "s", "e">>
TEXT_DISCONNECTED ==
  <<"D", "i", "s", "c", "o", "n", "n", "e", "c", "t", "e", "d", ".">>
TEXT_INVALID_ARGS ==
  <<"I", "n", "v", "a", "l", "i", "d", " ", "a", "r", "g", "u", "m", "e",
    "m", "t", "s", ".">>
TEXT_NO_REPLY ==
  <<"D", "i", "d", " ", "n", "o", "t", " ", "g", "e", "t", " ", "a", " ",
    "r", "e", "p", "l", "y", " ", "m", "e", "s", "s", "a", "g", "e", ".">>
TEXT_FILE_NOT_FOUND ==
  <<"F", "i", "l", "e", " ", "d", "o", "e", "s", "n", "'", "t", " ", "e",
    "x", "i", "s", "t", ".">>

\* message_from_error without its table: every name describes itself
message_from_error_NoTable(err) == err

\* message_from_error: a longer message describing an error name, or the
\* name itself when the name is unknown
message_from_error(err) ==
  IF err = DBUS_ERROR_FAILED THEN TEXT_FAILED
  ELSE IF err = DBUS_ERROR_NO_MEMORY THEN TEXT_NO_MEMORY
  ELSE IF err = DBUS_ERROR_IO_ERROR THEN TEXT_IO_ERROR
  ELSE IF err = DBUS_ERROR_BAD_ADDRESS THEN TEXT_BAD_ADDRESS
  ELSE IF err = DBUS_ERROR_NOT_SUPPORTED THEN TEXT_NOT_SUPPORTED
  ELSE IF err = DBUS_ERROR_LIMITS_EXCEEDED THEN TEXT_LIMITS_EXCEEDED
  ELSE IF err = DBUS_ERROR_ACCESS_DENIED THEN TEXT_ACCESS_DENIED
  ELSE IF err = DBUS_ERROR_AUTH_FAILED THEN TEXT_AUTH_FAILED
  ELSE IF err = DBUS_ERROR_NO_SERVER THEN TEXT_NO_SERVER
  ELSE IF err = DBUS_ERROR_TIMEOUT THEN TEXT_TIMEOUT
  ELSE IF err = DBUS_ERROR_NO_NETWORK THEN TEXT_NO_NETWORK
  ELSE IF err = DBUS_ERROR_ADDRESS_IN_USE THEN TEXT_ADDRESS_IN_USE
  ELSE IF err = DBUS_ERROR_DISCONNECTED THEN TEXT_DISCONNECTED
  ELSE IF err = DBUS_ERROR_INVALID_ARGS THEN TEXT_INVALID_ARGS
  ELSE IF err = DBUS_ERROR_NO_REPLY THEN TEXT_NO_REPLY
  ELSE IF err = DBUS_ERROR_FILE_NOT_FOUND THEN TEXT_FILE_NOT_FOUND
  ELSE err

\* the names of the fallback table
TableNames ==
  { DBUS_ERROR_FAILED,
    DBUS_ERROR_NO_MEMORY,
    DBUS_ERROR_IO_ERROR,
    DBUS_ERROR_BAD_ADDRESS,
    DBUS_ERROR_NOT_SUPPORTED,
    DBUS_ERROR_LIMITS_EXCEEDED,
    DBUS_ERROR_ACCESS_DENIED,
    DBUS_ERROR_AUTH_FAILED,
    DBUS_ERROR_NO_SERVER,
    DBUS_ERROR_TIMEOUT,
    DBUS_ERROR_NO_NETWORK,
    DBUS_ERROR_ADDRESS_IN_USE,
    DBUS_ERROR_DISCONNECTED,
    DBUS_ERROR_INVALID_ARGS,
    DBUS_ERROR_NO_REPLY,
    DBUS_ERROR_FILE_NOT_FOUND }

\* names that are not in the table; the second holds a conversion of printf
OtherNames == { <<"x">>, <<"x", "%", "%">> }

\* every name: the caller that goes through the table passes these
Names == TableNames \cup OtherNames

\* the names the caller with several objects passes: one of the table and
\* one that is not
FewNames == {DBUS_ERROR_FAILED, <<"x", "%", "%">>}

\* the constant messages a caller passes to dbus_set_error_const
Messages == { <<"m">> }

\* the formats a caller passes to dbus_set_error, each with its arguments;
\* the second format is the empty string
FormatCalls ==
  { [format |-> <<"%", "s", "!">>, args |-> << <<"a">> >>],
    [format |-> << >>, args |-> << >>] }

\* the DBusError objects of the caller
Objects == {"e1", "e2"}

\* the number of blocks dbus_malloc can hand out before memory runs out
MaxBlocks == 2

\* the null pointer, and the pointer to v
NULL == << >>

Ptr(v) == <<v>>

\* a char pointer: the block of the heap it points into, 0 for a string that
\* is not on the heap, and the characters it leads to
Str(b, t) == [block |-> b, text |-> t]

\* before any call into dbus-errors.c
NoCall ==
  [op |-> "none", error |-> NULL, dest |-> NULL, absent |-> FALSE,
   oom |-> FALSE, freed |-> {}]

VARIABLES
  pc,             \* the position of main
  long_bits,      \* the width of the platform's long: 32 or 64
  argc,           \* the number of tokens of argv, the program name included
  i,              \* main: the index of the token the loop is at
  arg,            \* main: the token argv[i] of this iteration
  prev_arg,       \* main: the token of the iteration before, or NULL
  config_file,    \* main: DBusString config_file
  addr_fd,        \* main: DBusString addr_fd
  print_address,  \* main: dbus_bool_t print_address
  print_addr_fd,  \* main: int print_addr_fd
  error,          \* main: DBusError error
  context,        \* static BusContext *context: NULL or the bus instance
  bus,            \* the bus instance: "none", "live", "shutdown", "released"
  address,        \* the listen address of the bus instance
  loop_quit,      \* the event loop was asked to stop
  got_sighup,     \* static dbus_bool_t got_sighup
  handlers,       \* the signals signal_handler is installed for
  exit_status,    \* the exit status of the process, -1 while it has none
  stderr_out,     \* the diagnostics printed to the error stream, in order
  stdout_out,     \* what was printed to standard output, in order
  writes,         \* the calls of _dbus_write: [fd, buf, ret]
  closed,         \* the descriptors closed by _dbus_close
  trace,          \* history: the lifecycle steps taken, in order
  cause,          \* history: why the process exited
  cfg_given,      \* history: the configuration paths the flags supplied so far
  fd_given,       \* history: the descriptor texts the flags supplied so far
  term_handled,   \* history: SIGTERM reached the handler
  term_in_loop,   \* history: SIGTERM reached the handler while the loop ran
  hup_in_loop,    \* history: SIGHUP was delivered while the loop ran
  errors,         \* the DBusError objects of a caller of dbus-errors.c
  initialized,    \* the objects dbus_error_init has been called on
  heap,           \* the blocks of dbus_malloc: TRUE while allocated
  aborted,        \* an assertion of dbus-errors.c failed
  freed_twice,    \* history: dbus_free was given a block that is not allocated
  freed_const,    \* history: dbus_free was given a constant string
  call            \* history: the last call made into dbus-errors.c: the
                  \* function, the objects passed, whether the message or
                  \* the format was NULL, whether dbus_malloc failed, the
                  \* blocks it released

args == <<argc, i, arg, prev_arg>>
opts == <<config_file, addr_fd, print_address, print_addr_fd>>
busv == <<error, context, bus, address, loop_quit>>
sigv == <<got_sighup, handlers>>
outv == <<stderr_out, stdout_out, writes, closed>>
given == <<cfg_given, fd_given>>
sigh == <<term_handled, term_in_loop, hup_in_loop>>
hist == <<trace, given, sigh>>
\* the state of the error objects and of the memory they use
errv == <<errors, initialized, heap, aborted, freed_twice, freed_const, call>>
\* what no step of main and no signal changes
fixed == <<long_bits, errv>>
vars == <<pc, fixed, args, opts, busv, sigv, exit_status, outv, hist, cause>>

\* the positions at which the process has ended
Ended == {"done", "crashed", "killed"}

\* a DBusError after dbus_error_init
ErrorInit == [name |-> << >>, message |-> << >>, const_message |-> TRUE]

\* a diagnostic: which message, the flag it names, the text it quotes
Diag(m, flag, text) == [msg |-> m, flag |-> flag, text |-> text]

UsageDiag == Diag("usage", "", << >>)

\* the object of a declaration without initialiser: its content is
\* indeterminate, and nothing reads it before dbus_error_init
Indeterminate ==
  [name |-> <<"?">>, message |-> <<"?">>, const_message |-> FALSE]

\* the error objects a caller declares, the heap and the history, at start
ErrorsInit ==
  /\ errors = [e \in Objects |-> Indeterminate]
  /\ initialized = {}
  /\ heap = [b \in 1..MaxBlocks |-> FALSE]
  /\ aborted = FALSE
  /\ freed_twice = FALSE
  /\ freed_const = FALSE
  /\ call = NoCall

\* main when the process starts
MainInit ==
  /\ pc = "start"
  /\ long_bits \in {32, 64}
  /\ argc \in 1..(MaxArgs + 1)
  /\ i = 1
  /\ arg = << >>
  /\ prev_arg = << >>
  /\ config_file = << >>
  /\ addr_fd = << >>
  /\ print_address = FALSE
  /\ print_addr_fd = -1
  /\ error = ErrorInit
  /\ context = << >>
  /\ bus = "none"
  /\ address = << >>
  /\ loop_quit = FALSE
  /\ got_sighup = FALSE
  /\ handlers = {}
  /\ exit_status = -1
  /\ stderr_out = << >>
  /\ stdout_out = << >>
  /\ writes = << >>
  /\ closed = {}
  /\ trace = << >>
  /\ cause = "none"
  /\ cfg_given = << >>
  /\ fd_given = << >>
  /\ term_handled = FALSE
  /\ term_in_loop = FALSE
  /\ hup_in_loop = FALSE

Init == MainInit /\ ErrorsInit

(***************************************************************************)
(* exit (status) and return status from main: the process ends.            *)
(***************************************************************************)
Exit(status, why) ==
  /\ pc' = "done"
  /\ exit_status' = status
  /\ cause' = why
  /\ trace' = Append(trace, "exit")

\* usage (): the usage text on the error stream, exit 1
Usage(before) ==
  /\ stderr_out' = stderr_out \o before \o <<UsageDiag>>
  /\ Exit(1, "usage")

\* version (): the banner on standard output, exit 0
Version ==
  /\ stdout_out' = Append(stdout_out, "version banner")
  /\ Exit(0, "version")

\* check_two_config_files: whether a configuration file is already requested
check_two_config_files_Never(cf) == FALSE

check_two_config_files(cf) == Len(cf) > 0

\* check_two_addr_descriptors: whether a descriptor is already requested
check_two_addr_descriptors(fd) == Len(fd) > 0

(***************************************************************************)
(* main, lines 101-105: the two strings are initialised; either            *)
(* initialisation may run out of memory.                                   *)
(***************************************************************************)
StringsInit ==
  /\ pc = "start"
  /\ \E ok \in BOOLEAN :
       IF ok
       THEN /\ pc' = "argloop"
            /\ UNCHANGED <<exit_status, cause, trace>>
       ELSE Exit(1, "oom")
  /\ UNCHANGED <<fixed, args, opts, busv, sigv, outv,
                 given, sigh>>

(***************************************************************************)
(* main, lines 111-113: the loop test and arg = argv[i].                   *)
(***************************************************************************)
FetchArg ==
  /\ pc = "argloop"
  /\ i < argc
  /\ \E t \in Tokens : arg' = t
  /\ pc' = "dispatch"
  /\ UNCHANGED <<fixed, argc, i, prev_arg, opts, busv, sigv, exit_status,
                 outv, hist, cause>>

ArgsDone ==
  /\ pc = "argloop"
  /\ ~(i < argc)
  /\ pc' = "check_config"
  /\ UNCHANGED <<fixed, args, opts, busv, sigv, exit_status, outv, hist, cause>>

\* lines 186-188: prev_arg = arg; ++i; and back to the loop test
NextArg ==
  /\ pc' = "argloop"
  /\ prev_arg' = <<arg>>
  /\ i' = i + 1
  /\ UNCHANGED <<argc, arg, exit_status, cause, trace>>

\* the iteration ends the process: nothing else of main changes
Leaving == UNCHANGED <<args, opts, given>>

(***************************************************************************)
(* main, lines 115-184: one action for each branch of the chain.           *)
(***************************************************************************)
ArgHelp ==
  /\ pc = "dispatch"
  /\ ArgBranch(arg, prev_arg) = "help"
  /\ Usage(<< >>)
  /\ Leaving
  /\ UNCHANGED <<fixed, busv, sigv, stdout_out, writes, closed,
                 sigh>>

ArgVersion ==
  /\ pc = "dispatch"
  /\ ArgBranch(arg, prev_arg) = "version"
  /\ Version
  /\ Leaving
  /\ UNCHANGED <<fixed, busv, sigv, stderr_out, writes, closed,
                 sigh>>

ArgUnknown ==
  /\ pc = "dispatch"
  /\ ArgBranch(arg, prev_arg) = "unknown"
  /\ Usage(<< >>)
  /\ Leaving
  /\ UNCHANGED <<fixed, busv, sigv, stdout_out, writes, closed,
                 sigh>>

\* the branches that take a configuration source: the check, then the append
ConfigSource(branch, flag, path) ==
  /\ pc = "dispatch"
  /\ ArgBranch(arg, prev_arg) = branch
  /\ IF check_two_config_files(config_file)
     THEN /\ stderr_out' = Append(stderr_out, Diag("two_config", flag, config_file))
          /\ Exit(1, "two_config")
          /\ Leaving
     ELSE \E ok \in BOOLEAN :
            IF ok
            THEN /\ config_file' = config_file \o path
                 /\ cfg_given' = Append(cfg_given, path)
                 /\ NextArg
                 /\ UNCHANGED fd_given
                 /\ UNCHANGED <<stderr_out, addr_fd, print_address, print_addr_fd>>
            ELSE /\ Exit(1, "oom")
                 /\ Leaving
                 /\ UNCHANGED stderr_out
  /\ UNCHANGED <<fixed, busv, sigv, stdout_out, writes, closed,
                 sigh>>

ArgSystem == ConfigSource("system", "system", DBUS_SYSTEM_CONFIG_FILE)

ArgSession == ConfigSource("session", "session", DBUS_SESSION_CONFIG_FILE)

ArgConfigFileEq == ConfigSource("config_file_eq", "config-file", AfterEquals(arg))

ArgConfigFileNext == ConfigSource("config_file_next", "config-file", arg)

ArgConfigFileBare ==
  /\ pc = "dispatch"
  /\ ArgBranch(arg, prev_arg) = "config_file_bare"
  /\ NextArg
  /\ UNCHANGED <<fixed, opts, busv, sigv, outv, given,
                 sigh>>

\* the branches that take a descriptor text: the check, then the append
Descriptor(branch, text) ==
  /\ pc = "dispatch"
  /\ ArgBranch(arg, prev_arg) = branch
  /\ IF check_two_addr_descriptors(addr_fd)
     THEN /\ stderr_out' = Append(stderr_out, Diag("two_addr", "print-address", addr_fd))
          /\ Exit(1, "two_addr")
          /\ Leaving
     ELSE \E ok \in BOOLEAN :
            IF ok
            THEN /\ addr_fd' = addr_fd \o text
                 /\ print_address' = TRUE
                 /\ fd_given' = Append(fd_given, text)
                 /\ NextArg
                 /\ UNCHANGED <<stderr_out, config_file, print_addr_fd, cfg_given>>
            ELSE /\ Exit(1, "oom")
                 /\ Leaving
                 /\ UNCHANGED stderr_out
  /\ UNCHANGED <<fixed, busv, sigv, stdout_out, writes, closed,
                 sigh>>

ArgPrintAddressEq == Descriptor("print_address_eq", AfterEquals(arg))

ArgPrintAddressNext == Descriptor("print_address_next", arg)

ArgPrintAddressBare ==
  /\ pc = "dispatch"
  /\ ArgBranch(arg, prev_arg) = "print_address_bare"
  /\ print_address' = TRUE
  /\ NextArg
  /\ UNCHANGED <<fixed, config_file, addr_fd, print_addr_fd, busv, sigv, outv,
                 given, sigh>>

(***************************************************************************)
(* main, lines 191-195: no configuration file was given.                   *)
(***************************************************************************)
\* line 191: no configuration file is requested
NoConfigFile_Never(cf) == FALSE

NoConfigFile(cf) == Len(cf) = 0

CheckConfig ==
  /\ pc = "check_config"
  /\ IF NoConfigFile(config_file)
     THEN Usage(<<Diag("no_config", "", << >>)>>)
     ELSE /\ pc' = "resolve_fd"
          /\ UNCHANGED <<stderr_out, exit_status, cause, trace>>
  /\ UNCHANGED <<fixed, args, opts, busv, sigv, stdout_out, writes, closed,
                 given, sigh>>

(***************************************************************************)
(* main, lines 197-216: the descriptor the address is printed to.          *)
(***************************************************************************)
\* lines 205-207: the text is rejected
DescriptorInvalid_NoEndCheck(s, bits) ==
  LET r == _dbus_string_parse_int(s, bits)
  IN ~r.ok \/ LongNegative(r.val) \/ LongAboveIntMax(r.val)

DescriptorInvalid(s, bits) ==
  LET r == _dbus_string_parse_int(s, bits)
  IN ~r.ok \/ r.end # Len(s) \/ LongNegative(r.val) \/ LongAboveIntMax(r.val)

\* line 200: the descriptor when none is given explicitly
DefaultFd == 1

ResolveFd ==
  /\ pc = "resolve_fd"
  /\ IF print_address /\ Len(addr_fd) > 0 /\ DescriptorInvalid(addr_fd, long_bits)
     THEN /\ stderr_out' = Append(stderr_out, Diag("invalid_fd", "", addr_fd))
          /\ Exit(1, "invalid_fd")
          /\ UNCHANGED print_addr_fd
     ELSE /\ print_addr_fd' =
               IF ~print_address THEN -1
               ELSE IF Len(addr_fd) > 0
                    THEN _dbus_string_parse_int(addr_fd, long_bits).val.mag
                    ELSE DefaultFd
          /\ pc' = "new_context"
          /\ UNCHANGED <<stderr_out, exit_status, cause, trace>>
  /\ UNCHANGED <<fixed, args, config_file, addr_fd, print_address, busv, sigv,
                 stdout_out, writes, closed, given, sigh>>

(***************************************************************************)
(* main, lines 218-227: the bus instance is constructed, or the            *)
(* construction fails and leaves its reason in the error.                  *)
(***************************************************************************)
BusContextNew ==
  /\ pc = "new_context"
  /\ config_file' = << >>
  /\ error' = ErrorInit
  /\ \/ /\ \E a \in Addresses : address' = a
        /\ context' = <<"bus">>
        /\ bus' = "live"
        /\ pc' = "print_address"
        /\ trace' = Append(trace, "bus_context_new")
        /\ UNCHANGED <<stderr_out, exit_status, cause>>
     \/ /\ \E m \in NewErrors :
             stderr_out' = Append(stderr_out, Diag("new_failed", "", <<m>>))
        /\ Exit(1, "new_failed")
        /\ UNCHANGED <<context, bus, address>>
  /\ UNCHANGED <<fixed, args, addr_fd, print_address, print_addr_fd, loop_quit,
                 sigv, stdout_out, writes, closed, given, sigh>>

(***************************************************************************)
(* main, lines 234-258: the address and a newline are written to the       *)
(* descriptor.  _dbus_write returns the number of bytes it transferred,    *)
(* or -1.                                                                  *)
(***************************************************************************)
\* line 254: the descriptor is closed after the write
ClosesFd_Always(fd) == TRUE

ClosesFd(fd) == fd > 2

\* line 247: the write did not transfer all of the text
WriteFailed_OnlyError(ret, bytes) == ret < 0

WriteFailed(ret, bytes) == ret # bytes

\* lines 242-243: the text handed to _dbus_write
AddressText_NoNewline(a) == a

AddressText(a) == a \o S_newline

PrintAddress ==
  /\ pc = "print_address"
  /\ IF print_addr_fd >= 0
     THEN \E ok \in BOOLEAN :
            IF ~ok
            THEN /\ Exit(1, "oom")
                 /\ UNCHANGED <<stderr_out, writes, closed>>
            ELSE LET addr == AddressText(address)
                     bytes == Len(addr)
                 IN \E ret \in -1..bytes :
                      /\ writes' = Append(writes, [fd |-> print_addr_fd, buf |-> addr,
                                                   start |-> 0, len |-> bytes, ret |-> ret])
                      /\ IF WriteFailed(ret, bytes)
                         THEN /\ stderr_out' = Append(stderr_out, Diag("write_failed", "", << >>))
                              /\ Exit(1, "write_failed")
                              /\ UNCHANGED closed
                         ELSE /\ closed' = IF ClosesFd(print_addr_fd)
                                           THEN closed \cup {print_addr_fd}
                                           ELSE closed
                              /\ pc' = "set_signal_handler"
                              /\ trace' = Append(trace, "print_address")
                              /\ UNCHANGED <<stderr_out, exit_status, cause>>
     ELSE /\ pc' = "set_signal_handler"
          /\ UNCHANGED <<stderr_out, writes, closed, exit_status, cause, trace>>
  /\ UNCHANGED <<fixed, args, opts, busv, sigv, stdout_out,
                 given, sigh>>

(***************************************************************************)
(* main, lines 260-261: signal_handler is installed for SIGTERM; the       *)
(* installation for SIGHUP is commented out.                               *)
(***************************************************************************)
InstalledSignals_WithHup == {SIGTERM, SIGHUP}

InstalledSignals == {SIGTERM}

SetSignalHandler ==
  /\ pc = "set_signal_handler"
  /\ handlers' = handlers \cup InstalledSignals
  /\ pc' = "loop_run"
  /\ trace' = Append(trace, "set_signal_handler")
  /\ UNCHANGED <<fixed, args, opts, busv, got_sighup, exit_status, outv,
                 given, sigh, cause>>

(***************************************************************************)
(* main, line 264: bus_loop_run blocks until the loop is asked to stop.    *)
(***************************************************************************)
BusLoopRun ==
  /\ pc = "loop_run"
  /\ pc' = "loop"
  /\ trace' = Append(trace, "bus_loop_run")
  /\ UNCHANGED <<fixed, args, opts, busv, sigv, exit_status, outv,
                 given, sigh, cause>>

BusLoopReturn ==
  /\ pc = "loop"
  /\ loop_quit
  /\ pc' = "shutdown"
  /\ trace' = Append(trace, "bus_loop_return")
  /\ UNCHANGED <<fixed, args, opts, busv, sigv, exit_status, outv,
                 given, sigh, cause>>

(***************************************************************************)
(* main, lines 266-277: the bus instance is shut down, its reference is    *)
(* released, and main returns 0 whether or not got_sighup is set.          *)
(***************************************************************************)
\* the release without the shutdown before it
BusContextShutdown_Skipped ==
  /\ pc = "shutdown"
  /\ pc' = "unref"
  /\ UNCHANGED <<fixed, args, opts, busv, sigv, exit_status, outv, hist, cause>>

BusContextShutdown ==
  /\ pc = "shutdown"
  /\ bus' = "shutdown"
  /\ pc' = "unref"
  /\ trace' = Append(trace, "bus_context_shutdown")
  /\ UNCHANGED <<fixed, args, opts, error, context, address, loop_quit, sigv,
                 exit_status, outv, given, sigh, cause>>

BusContextUnref ==
  /\ pc = "unref"
  /\ bus' = "released"
  /\ pc' = "return"
  /\ trace' = Append(trace, "bus_context_unref")
  /\ UNCHANGED <<fixed, args, opts, error, context, address, loop_quit, sigv,
                 exit_status, outv, given, sigh, cause>>

MainReturn ==
  /\ pc = "return"
  /\ Exit(0, "normal")
  /\ UNCHANGED <<fixed, args, opts, busv, sigv, outv,
                 given, sigh>>

(***************************************************************************)
(* signal_handler (sig), run when a signal it is installed for arrives,    *)
(* at any point of main.  It reads the bus instance through the global     *)
(* context; when that instance has been released the read is undefined:    *)
(* it either goes unnoticed or ends the process.                           *)
(***************************************************************************)
\* case SIGHUP: got_sighup = TRUE, and fall through
SetsGotSighup(sig) == sig = SIGHUP

\* case SIGHUP and case SIGTERM: bus_loop_quit (bus_context_get_loop (context))
QuitsLoop_Never(sig) == FALSE

QuitsLoop(sig) == sig \in {SIGHUP, SIGTERM}

SignalHandler ==
  /\ pc \notin Ended
  /\ \E sig \in handlers :
       /\ got_sighup' = (got_sighup \/ SetsGotSighup(sig))
       /\ term_handled' = (term_handled \/ sig = SIGTERM)
       /\ term_in_loop' = (term_in_loop \/ (sig = SIGTERM /\ pc = "loop"))
       /\ hup_in_loop' = (hup_in_loop \/ (sig = SIGHUP /\ pc = "loop"))
       /\ IF ~QuitsLoop(sig)
          THEN UNCHANGED <<pc, loop_quit>>
          ELSE IF bus = "released"
               THEN \/ UNCHANGED <<pc, loop_quit>>
                    \/ pc' = "crashed" /\ UNCHANGED loop_quit
               ELSE loop_quit' = TRUE /\ UNCHANGED pc
  /\ UNCHANGED <<fixed, args, opts, error, context, bus, address, handlers,
                 exit_status, outv, trace, given, cause>>

(***************************************************************************)
(* A signal that signal_handler is not installed for has the disposition   *)
(* the process was started with: it ends the process (the default for      *)
(* SIGHUP and SIGTERM) or it is ignored.                                   *)
(***************************************************************************)
DefaultDisposition ==
  /\ pc \notin Ended
  /\ \E sig \in Signals \ handlers :
       hup_in_loop' = (hup_in_loop \/ (sig = SIGHUP /\ pc = "loop"))
  /\ \/ pc' = "killed"
     \/ pc' = pc
  /\ UNCHANGED <<fixed, args, opts, busv, sigv, exit_status, outv,
                 trace, given, term_handled, term_in_loop, cause>>

(***************************************************************************)
(* The specifications.                                                     *)
(***************************************************************************)
\* the steps of main
Main ==
  \/ StringsInit
  \/ FetchArg
  \/ ArgsDone
  \/ ArgHelp
  \/ ArgVersion
  \/ ArgSystem
  \/ ArgSession
  \/ ArgConfigFileEq
  \/ ArgConfigFileNext
  \/ ArgConfigFileBare
  \/ ArgPrintAddressEq
  \/ ArgPrintAddressNext
  \/ ArgPrintAddressBare
  \/ ArgUnknown
  \/ CheckConfig
  \/ ResolveFd
  \/ BusContextNew
  \/ PrintAddress
  \/ SetSignalHandler
  \/ BusLoopRun
  \/ BusLoopReturn
  \/ BusContextShutdown
  \/ BusContextUnref
  \/ MainReturn

\* the process, with the signals that reach signal_handler
Next == Main \/ SignalHandler

Spec == Init /\ [][Next]_vars

\* the main flow keeps running while it can take a step
FairSpec == Spec /\ WF_vars(Main)

\* the process, with every signal the environment may send
NextAnySignal == Next \/ DefaultDisposition

SpecAnySignal == Init /\ [][NextAnySignal]_vars

(***************************************************************************)
(* dbus-errors.c: the operations on a DBusError.  Each function is an      *)
(* operator from the memory before the call to the memory after it; an     *)
(* action below is one call a caller makes.                                *)
(***************************************************************************)
\* the variables of main and of the signal handler
mainv == <<pc, long_bits, args, opts, busv, sigv, exit_status, outv, hist,
           cause>>

\* the memory the functions work on
Memory ==
  [errors |-> errors, initialized |-> initialized, heap |-> heap,
   aborted |-> aborted, freed_twice |-> freed_twice,
   freed_const |-> freed_const]

\* _dbus_assert: a failed assertion is a defect that ends the process
_dbus_assert(m, condition) ==
  IF condition THEN m ELSE [m EXCEPT !.aborted = TRUE]

\* the blocks dbus_malloc has not handed out
FreeBlocks(m) == {b \in 1..MaxBlocks : ~m.heap[b]}

\* dbus_malloc: a block that is not in use, or 0 (NULL) when the allocation
\* fails; which of the free blocks it is makes no difference to the callers
dbus_malloc(m, ok) ==
  IF ok /\ FreeBlocks(m) # {} THEN Min(FreeBlocks(m)) ELSE 0

\* dbus_free: releases the block; releasing a constant, or a block that is
\* not allocated, is undefined and is recorded
dbus_free(m, memory) ==
  IF memory = NULL THEN m
  ELSE IF memory[1].block = 0 THEN [m EXCEPT !.freed_const = TRUE]
  ELSE IF ~m.heap[memory[1].block] THEN [m EXCEPT !.freed_twice = TRUE]
  ELSE [m EXCEPT !.heap[memory[1].block] = FALSE]

\* vsprintf: the format with each %s replaced by the next argument and each
\* %% by a percent sign; vsnprintf measures the same text
RECURSIVE vsprintf(_, _)
vsprintf(format, ap) ==
  IF format = << >> THEN << >>
  ELSE IF format[1] = "%" /\ Len(format) >= 2 /\ format[2] = "s"
  THEN Head(ap) \o vsprintf(SubSeq(format, 3, Len(format)), Tail(ap))
  ELSE IF format[1] = "%" /\ Len(format) >= 2 /\ format[2] = "%"
  THEN <<"%">> \o vsprintf(SubSeq(format, 3, Len(format)), ap)
  ELSE <<format[1]>> \o vsprintf(Tail(format), ap)

\* dbus_error_init that clears the name and leaves the message
dbus_error_init_NameOnly(m, err) ==
  LET a == _dbus_assert(m, err # NULL)
  IN  IF a.aborted THEN a
      ELSE [a EXCEPT !.errors[err[1]].name = NULL,
                     !.errors[err[1]].const_message = TRUE,
                     !.initialized = @ \cup {err[1]}]

\* dbus_error_init: name and message absent, the message not owned
dbus_error_init(m, err) ==
  LET a == _dbus_assert(m, err # NULL)
  IN  IF a.aborted THEN a
      ELSE [a EXCEPT !.errors[err[1]] = ErrorInit,
                     !.initialized = @ \cup {err[1]}]

\* dbus_error_free that releases the message whatever const_message says
dbus_error_free_Always(m, err) ==
  dbus_error_init(dbus_free(m, m.errors[err[1]].message), err)

\* dbus_error_free: releases a message the object owns, then reinitialises
dbus_error_free(m, err) ==
  LET real == m.errors[err[1]]
      freed == IF ~real.const_message THEN dbus_free(m, real.message) ELSE m
  IN  dbus_error_init(freed, err)

\* the assertion of dbus_error_has_name and dbus_error_is_set: name and message
\* are both set or both NULL
BothOrNeither(real) ==
  \/ real.name # NULL /\ real.message # NULL
  \/ real.name = NULL /\ real.message = NULL

\* dbus_error_is_set: the memory after its assertions and what it returns
dbus_error_is_set(m, err) ==
  LET a == _dbus_assert(m, err # NULL)
      b == IF a.aborted THEN a
           ELSE _dbus_assert(a, BothOrNeither(a.errors[err[1]]))
  IN  [mem |-> b,
       ret |-> IF b.aborted THEN FALSE ELSE b.errors[err[1]].name # NULL]

\* dbus_set_error_const without the assertions on the object: it overwrites
dbus_set_error_const_Overwrites(m, err, name, message) ==
  IF err = NULL THEN m
  ELSE LET c == _dbus_assert(m, name # NULL)
       IN  IF c.aborted THEN c
           ELSE LET text == IF message = NULL
                            THEN Ptr(Str(0, message_from_error(name[1])))
                            ELSE message
                IN  [c EXCEPT !.errors[err[1]] =
                       [name |-> name, message |-> text,
                        const_message |-> TRUE]]

\* dbus_set_error_const: name and message are stored by reference; a NULL
\* message is replaced by message_from_error (name)
dbus_set_error_const(m, err, name, message) ==
  IF err = NULL THEN m
  ELSE LET real == m.errors[err[1]]
           a == _dbus_assert(m, real.name = NULL)
           b == IF a.aborted THEN a ELSE _dbus_assert(a, real.message = NULL)
           c == IF b.aborted THEN b ELSE _dbus_assert(b, name # NULL)
       IN  IF c.aborted THEN c
           ELSE LET text == IF message = NULL
                            THEN Ptr(Str(0, message_from_error(name[1])))
                            ELSE message
                IN  [c EXCEPT !.errors[err[1]] =
                       [name |-> name, message |-> text,
                        const_message |-> TRUE]]

\* dbus_move_error that leaves src as it is
dbus_move_error_KeepsSrc(m, src, dest) ==
  LET set == dbus_error_is_set(m, dest)
      a == IF set.mem.aborted THEN set.mem
           ELSE _dbus_assert(set.mem, ~set.ret)
  IN  IF a.aborted THEN a
      ELSE IF dest # NULL
      THEN LET freed == dbus_error_free(a, dest)
           IN  [freed EXCEPT !.errors[dest[1]] = freed.errors[src[1]]]
      ELSE dbus_error_free(a, src)

\* dbus_move_error: the assertion on dest comes first, whether or not dest is
\* NULL; then dest takes the whole of src and src is reinitialised
dbus_move_error(m, src, dest) ==
  LET set == dbus_error_is_set(m, dest)
      a == IF set.mem.aborted THEN set.mem
           ELSE _dbus_assert(set.mem, ~set.ret)
  IN  IF a.aborted THEN a
      ELSE IF dest # NULL
      THEN LET freed == dbus_error_free(a, dest)
               copied == [freed EXCEPT
                            !.errors[dest[1]] = freed.errors[src[1]]]
           IN  dbus_error_init(copied, src)
      ELSE dbus_error_free(a, src)

\* dbus_set_error that hands a NULL format to dbus_set_error_const
dbus_set_error_ConstWhenAbsent(m, err, name, format, ap, ok) ==
  IF err = NULL THEN m
  ELSE LET real == m.errors[err[1]]
           a == _dbus_assert(m, real.name = NULL)
           b == IF a.aborted THEN a ELSE _dbus_assert(a, real.message = NULL)
           c == IF b.aborted THEN b ELSE _dbus_assert(b, name # NULL)
       IN  IF c.aborted THEN c
           ELSE IF format = NULL
           THEN dbus_set_error_const(c, err, name, NULL)
           ELSE LET message == dbus_malloc(c, ok)
                IN  IF message = 0
                    THEN dbus_set_error_const(c, err,
                                              Ptr(DBUS_ERROR_NO_MEMORY), NULL)
                    ELSE [c EXCEPT
                            !.heap[message] = TRUE,
                            !.errors[err[1]] =
                              [name |-> name,
                               message |->
                                 Ptr(Str(message, vsprintf(format[1], ap))),
                               const_message |-> FALSE]]

\* dbus_set_error that gives up when the allocation fails
dbus_set_error_NoFallback(m, err, name, format, ap, ok) ==
  IF err = NULL THEN m
  ELSE LET real == m.errors[err[1]]
           a == _dbus_assert(m, real.name = NULL)
           b == IF a.aborted THEN a ELSE _dbus_assert(a, real.message = NULL)
           c == IF b.aborted THEN b ELSE _dbus_assert(b, name # NULL)
       IN  IF c.aborted THEN c
           ELSE LET fmt == IF format = NULL
                           THEN message_from_error(name[1])
                           ELSE format[1]
                    message == dbus_malloc(c, ok)
                IN  IF message = 0
                    THEN c
                    ELSE [c EXCEPT
                            !.heap[message] = TRUE,
                            !.errors[err[1]] =
                              [name |-> name,
                               message |-> Ptr(Str(message, vsprintf(fmt, ap))),
                               const_message |-> FALSE]]

\* dbus_set_error: the message is printed into a block of dbus_malloc and the
\* object owns it; a NULL format is replaced by message_from_error (name);
\* when the allocation fails the error becomes DBUS_ERROR_NO_MEMORY
dbus_set_error(m, err, name, format, ap, ok) ==
  IF err = NULL THEN m
  ELSE LET real == m.errors[err[1]]
           a == _dbus_assert(m, real.name = NULL)
           b == IF a.aborted THEN a ELSE _dbus_assert(a, real.message = NULL)
           c == IF b.aborted THEN b ELSE _dbus_assert(b, name # NULL)
       IN  IF c.aborted THEN c
           ELSE LET fmt == IF format = NULL
                           THEN message_from_error(name[1])
                           ELSE format[1]
                    message == dbus_malloc(c, ok)
                IN  IF message = 0
                    THEN dbus_set_error_const(c, err,
                                              Ptr(DBUS_ERROR_NO_MEMORY), NULL)
                    ELSE [c EXCEPT
                            !.heap[message] = TRUE,
                            !.errors[err[1]] =
                              [name |-> name,
                               message |-> Ptr(Str(message, vsprintf(fmt, ap))),
                               const_message |-> FALSE]]

(***************************************************************************)
(* The calls of a caller.  A caller passes objects it has initialised, or  *)
(* NULL where the function takes it; after a failed assertion there is no  *)
(* further call.                                                           *)
(***************************************************************************)
\* the pointers to the initialised objects
Initialized == {Ptr(e) : e \in initialized}

\* the name arguments
NameArgs(names) == {Ptr(n) : n \in names} \cup {NULL}

\* the format arguments with what follows them: a format of FormatCalls, or
\* NULL and nothing
FormatArgs ==
  {[format |-> Ptr(f.format), args |-> f.args] : f \in FormatCalls}
    \cup {[format |-> NULL, args |-> << >>]}

\* the message arguments: a constant string, or NULL
MessageArgs == {Ptr(t) : t \in Messages} \cup {NULL}

\* the memory after the call, and the call in the history
Returns(m, c) ==
  /\ errors' = m.errors
  /\ initialized' = m.initialized
  /\ heap' = m.heap
  /\ aborted' = m.aborted
  /\ freed_twice' = m.freed_twice
  /\ freed_const' = m.freed_const
  /\ call' = [c EXCEPT !.freed = {b \in 1..MaxBlocks : heap[b] /\ ~m.heap[b]}]
  /\ UNCHANGED mainv

\* dbus_error_init (&e)
CallInit(objs) ==
  /\ ~aborted
  /\ \E e \in objs :
       Returns(dbus_error_init(Memory, Ptr(e)),
               [NoCall EXCEPT !.op = "init", !.error = Ptr(e)])

\* dbus_error_free (&e)
CallFree ==
  /\ ~aborted
  /\ \E err \in Initialized :
       Returns(dbus_error_free(Memory, err),
               [NoCall EXCEPT !.op = "free", !.error = err])

\* dbus_set_error_const (error, name, message)
CallSetErrorConst(names) ==
  /\ ~aborted
  /\ \E err \in Initialized \cup {NULL}, name \in NameArgs(names),
        message \in MessageArgs :
       Returns(dbus_set_error_const(Memory, err, name,
                                    IF message = NULL THEN NULL
                                    ELSE Ptr(Str(0, message[1]))),
               [NoCall EXCEPT !.op = "set_error_const", !.error = err,
                              !.absent = (message = NULL)])

\* whether the call of dbus_set_error reaches dbus_malloc and gets NULL
AllocationFails(m, err, name, ok) ==
  /\ err # NULL
  /\ m.errors[err[1]].name = NULL
  /\ m.errors[err[1]].message = NULL
  /\ name # NULL
  /\ dbus_malloc(m, ok) = 0

\* dbus_set_error (error, name, format, ...)
CallSetError(names) ==
  /\ ~aborted
  /\ \E err \in Initialized \cup {NULL}, name \in NameArgs(names),
        f \in FormatArgs, ok \in BOOLEAN :
       Returns(dbus_set_error(Memory, err, name, f.format, f.args, ok),
               [NoCall EXCEPT !.op = "set_error", !.error = err,
                              !.absent = (f.format = NULL),
                              !.oom = AllocationFails(Memory, err,
                                                      name, ok)])

\* dbus_move_error (src, dest)
CallMoveError ==
  /\ ~aborted
  /\ \E src \in Initialized, dest \in Initialized \cup {NULL} :
       Returns(dbus_move_error(Memory, src, dest),
               [NoCall EXCEPT !.op = "move_error", !.error = src,
                              !.dest = dest])

\* a caller of dbus-errors.c with several error objects
NextErrors ==
  \/ CallInit(Objects)
  \/ CallFree
  \/ CallSetErrorConst(FewNames)
  \/ CallSetError(FewNames)
  \/ CallMoveError

\* a caller with one error object that passes every name
NextTable ==
  \/ CallInit({"e1"})
  \/ CallFree
  \/ CallSetErrorConst(Names)
  \/ CallSetError(Names)
  \/ CallMoveError

\* the caller starts with its objects declared and nothing else running
InitErrors == MainInit /\ long_bits = 64 /\ argc = 1 /\ ErrorsInit

SpecErrors == InitErrors /\ [][NextErrors]_vars

SpecTable == InitErrors /\ [][NextTable]_vars


(***************************************************************************)
(* Properties of the entry point.                                          *)
(***************************************************************************)
\* p is a prefix of s
IsPrefix(p, s) == Len(p) <= Len(s) /\ SubSeq(s, 1, Len(p)) = p

HelpTokens == {S_help, S_h, S_q}

\* token a, after token prev, has one of the four forms of a configuration
\* source: --system, --session, --config-file=PATH, or PATH after --config-file
ConfigSourceForm(a, prev) ==
  \/ a = S_system
  \/ a = S_session
  \/ IsPrefix(S_config_file_eq, a)
  \/ prev = <<S_config_file>>

\* the process ended with status 1, by the duplicate-source check, and holds
\* no bus instance
ExitsOnSecondSource ==
  /\ pc' = "done"
  /\ exit_status' = 1
  /\ stderr_out' = Append(stderr_out, Diag("two_config",
                          IF arg = S_system THEN "system"
                          ELSE IF arg = S_session THEN "session" ELSE "config-file",
                          config_file))
  /\ bus' = "none"
  /\ context' = << >>

\* C1, as stated: a token of one of the four configuration-source forms,
\* reached after an earlier flag supplied a configuration source (whatever
\* its PATH), makes the process exit with status 1 with no bus instance.
C1_AnyPath ==
  [][(pc = "dispatch" /\ ConfigSourceForm(arg, prev_arg) /\ Len(cfg_given) > 0)
       => (pc' = "done" /\ exit_status' = 1 /\ bus' = "none")]_vars

\* C1, amended: a token that is taken as a configuration source (one of the
\* four forms, the token after --config-file not being a help or version
\* flag), reached after an earlier flag supplied a non-empty configuration
\* path, makes the process exit with status 1 by the duplicate-source
\* diagnostic, with no bus instance constructed.
C1_SecondSourceExits ==
  [][(/\ pc = "dispatch"
      /\ ConfigSourceForm(arg, prev_arg)
      /\ arg \notin HelpTokens \cup {S_version}
      /\ \E k \in DOMAIN cfg_given : Len(cfg_given[k]) > 0)
       => ExitsOnSecondSource]_vars

\* C1, witness: --system, then --config-file and a separate PATH, has ended
\* the process by the duplicate-source check.
C1_Witness ==
  /\ pc = "done"
  /\ cause = "two_config"
  /\ cfg_given = <<DBUS_SYSTEM_CONFIG_FILE>>
  /\ prev_arg = <<S_config_file>>
  /\ arg = <<"a">>

\* the text is an optional sign and then digits only, at least one
IsDecimal(s) ==
  LET body == IF Len(s) >= 1 /\ s[1] \in {"-", "+"} THEN SubSeq(s, 2, Len(s)) ELSE s
  IN Len(body) >= 1 /\ \A k \in 1..Len(body) : body[k] \in Digits

\* the digits of a decimal text, without its sign and its leading zeros
RECURSIVE StripZeros(_)
StripZeros(d) == IF Len(d) >= 1 /\ d[1] = "0" THEN StripZeros(Tail(d)) ELSE d

Magnitude(s) ==
  StripZeros(IF Len(s) >= 1 /\ s[1] \in {"-", "+"} THEN SubSeq(s, 2, Len(s)) ELSE s)

IntMaxDigits == <<2, 1, 4, 7, 4, 8, 3, 6, 4, 7>>

\* digit sequences of the same length, compared from the left
RECURSIVE DigitsLeq(_, _)
DigitsLeq(d, m) ==
  IF d = << >> THEN TRUE
  ELSE IF DigitVal(d[1]) < m[1] THEN TRUE
  ELSE IF DigitVal(d[1]) > m[1] THEN FALSE
  ELSE DigitsLeq(Tail(d), Tail(m))

\* the text parses entirely as a non-negative integer within the int range
IsDescriptorText(s) ==
  /\ IsDecimal(s)
  /\ s[1] = "-" => Magnitude(s) = << >>
  /\ \/ Len(Magnitude(s)) < Len(IntMaxDigits)
     \/ Len(Magnitude(s)) = Len(IntMaxDigits) /\ DigitsLeq(Magnitude(s), IntMaxDigits)

\* the process ended with status 1, by the invalid-descriptor diagnostic
\* quoting the text, and holds no bus instance
ExitsOnInvalidDescriptor ==
  /\ pc' = "done"
  /\ exit_status' = 1
  /\ stderr_out' = Append(stderr_out, Diag("invalid_fd", "", addr_fd))
  /\ bus' = "none"
  /\ context' = << >>

\* C2, as stated: a process that was given an explicit descriptor whose
\* text is no non-negative integer of the int range ends with status 1, its
\* last diagnostic the invalid-descriptor one quoting the text, and with no
\* bus instance.
C2_AnyInvocation ==
  (pc \in Ended /\ Len(fd_given) > 0 /\ ~IsDescriptorText(addr_fd))
    => /\ exit_status = 1
       /\ stderr_out # << >>
       /\ stderr_out[Len(stderr_out)] = Diag("invalid_fd", "", addr_fd)
       /\ bus = "none"

\* C2, amended: when every token was accepted and a configuration file is
\* requested, an explicit non-empty descriptor text that is no non-negative
\* integer of the int range ends the process with status 1 by the
\* invalid-descriptor diagnostic quoting the text, with no bus instance.
C2_InvalidDescriptorExits ==
  [][(/\ pc = "resolve_fd"
      /\ Len(fd_given) > 0
      /\ Len(addr_fd) > 0
      /\ ~IsDescriptorText(addr_fd))
       => ExitsOnInvalidDescriptor]_vars

\* C2, witness: digits followed by another character were rejected.
C2_Witness ==
  /\ pc = "done"
  /\ cause = "invalid_fd"
  /\ addr_fd = <<"3", "x">>
  /\ stderr_out = <<Diag("invalid_fd", "", <<"3", "x">>)>>

\* token a is one that the chain recognises before it looks at the token
\* before it
RecognisedFlag(a) ==
  \/ a \in HelpTokens \cup {S_version, S_system, S_session, S_config_file}
  \/ IsPrefix(S_config_file_eq, a)
  \/ IsPrefix(S_print_address_eq, a)

\* the step takes arg itself as the descriptor text: it is appended to
\* the descriptor text, or rejected as a second descriptor, or the append
\* runs out of memory; nothing of the configuration changes
TakenAsDescriptor ==
  /\ config_file' = config_file
  /\ cfg_given' = cfg_given
  /\ stdout_out' = stdout_out
  /\ \/ /\ Len(addr_fd) = 0
        /\ addr_fd' = arg
        /\ print_address'
        /\ pc' = "argloop"
     \/ /\ Len(addr_fd) = 0
        /\ pc' = "done" /\ exit_status' = 1 /\ stderr_out' = stderr_out
     \/ /\ Len(addr_fd) > 0
        /\ pc' = "done" /\ exit_status' = 1
        /\ stderr_out' = Append(stderr_out, Diag("two_addr", "print-address", addr_fd))

\* the step appends path to the configuration file, or rejects it as a
\* second configuration source, or the append runs out of memory; nothing
\* of the descriptor changes
TakenAsConfigSource(path) ==
  /\ addr_fd' = addr_fd
  /\ fd_given' = fd_given
  /\ print_address' = print_address
  /\ \/ /\ Len(config_file) = 0
        /\ config_file' = path
        /\ cfg_given' = Append(cfg_given, path)
        /\ pc' = "argloop"
     \/ /\ Len(config_file) = 0
        /\ pc' = "done" /\ exit_status' = 1 /\ stderr_out' = stderr_out
     \/ /\ Len(config_file) > 0
        /\ pc' = "done" /\ exit_status' = 1
        /\ stderr_out' # stderr_out
        /\ stderr_out'[Len(stderr_out')].msg = "two_config"

\* the step interprets arg as the flag it is
TakenAsFlag ==
  /\ arg \in HelpTokens => /\ pc' = "done" /\ exit_status' = 1
                           /\ stderr_out' = Append(stderr_out, UsageDiag)
  /\ arg = S_version => pc' = "done" /\ exit_status' = 0
  /\ arg = S_system => TakenAsConfigSource(DBUS_SYSTEM_CONFIG_FILE)
  /\ arg = S_session => TakenAsConfigSource(DBUS_SESSION_CONFIG_FILE)
  /\ IsPrefix(S_config_file_eq, arg) => TakenAsConfigSource(AfterEquals(arg))
  /\ arg = S_config_file => /\ pc' = "argloop"
                            /\ UNCHANGED <<config_file, addr_fd, print_address, given>>
  /\ IsPrefix(S_print_address_eq, arg)
       => \/ pc' = "argloop" /\ addr_fd' = AfterEquals(arg) /\ Len(addr_fd) = 0
          \/ pc' = "done" /\ exit_status' = 1

\* C3, as stated: every token after a bare --print-address is taken as the
\* descriptor text, whatever the token is.
C3_AlwaysDescriptor ==
  [][(pc = "dispatch" /\ prev_arg = <<S_print_address>>) => TakenAsDescriptor]_vars

\* C3, amended: a token after a bare --print-address is taken as the
\* descriptor text exactly when it is not a flag that the chain recognises
\* first (a help flag, --version, --system, --session, --config-file,
\* --config-file=PATH, --print-address=DESCRIPTOR); such a flag is
\* interpreted as the flag.  A second --print-address is taken as the text.
C3_DescriptorUnlessFlag ==
  [][(pc = "dispatch" /\ prev_arg = <<S_print_address>>)
       => IF RecognisedFlag(arg) THEN TakenAsFlag ELSE TakenAsDescriptor]_vars

\* C3, witness: a second --print-address was taken as the descriptor text.
C3_Witness ==
  /\ pc = "argloop"
  /\ prev_arg = <<S_print_address>>
  /\ addr_fd = S_print_address
  /\ fd_given = <<S_print_address>>

\* step e has been taken
Took(e) == \E k \in DOMAIN trace : trace[k] = e

\* step e was taken, and step f right after it
TookThen(e, f) ==
  \E k \in DOMAIN trace : k < Len(trace) /\ trace[k] = e /\ trace[k + 1] = f

\* C4, as stated: a process that has ended and had constructed a bus
\* instance has shut it down and then released it, on every path.
C4_EveryPath ==
  (pc \in Ended /\ bus # "none")
    => bus = "released" /\ TookThen("bus_context_shutdown", "bus_context_unref")

\* C4, amended: a bus instance is released only right after it was shut
\* down; a process that has ended and had constructed a bus instance either
\* ran the event loop, and has then shut the instance down and released it,
\* or failed to publish the address (no memory for the text, a short write,
\* a write error), and has then exited with status 1 with the instance
\* neither shut down nor released.
C4_ShutdownThenRelease ==
  /\ bus = "released" => TookThen("bus_context_shutdown", "bus_context_unref")
  /\ bus = "shutdown" => Took("bus_loop_return")
  /\ (pc \in Ended /\ bus # "none")
       => IF Took("bus_loop_run")
          THEN bus = "released"
          ELSE /\ bus = "live"
               /\ pc = "done" /\ exit_status = 1
               /\ print_addr_fd >= 0
               /\ \/ writes = << >>
                  \/ Len(writes) = 1 /\ writes[1].ret # writes[1].len

\* C4, witness: the process ran the loop and has ended with the instance
\* shut down and released.
C4_Witness ==
  /\ pc = "done"
  /\ bus = "released"
  /\ trace[Len(trace) - 2] = "bus_context_shutdown"
  /\ trace[Len(trace) - 1] = "bus_context_unref"

\* the steps of a run through the event loop, in their order
LifecycleOrder ==
  <<"bus_context_new">>
    \o (IF print_addr_fd >= 0 THEN <<"print_address">> ELSE << >>)
    \o <<"set_signal_handler", "bus_loop_run", "bus_loop_return",
         "bus_context_shutdown", "bus_context_unref", "exit">>

\* the one write transferred all of the address and the newline
PublishedCompletely ==
  /\ Len(writes) = 1
  /\ writes[1].buf = address \o S_newline
  /\ writes[1].ret = Len(address) + 1

\* C5: in a run that reached the event loop the steps taken so far are, in
\* order, the construction, the publication when requested (written
\* completely), the installation of the handler, the loop run, its return
\* once a stop was asked for, the shutdown, the release and the exit; the
\* handler is installed only with the instance constructed, and the loop
\* starts only after a requested publication completed.
C5_LifecycleOrder ==
  /\ Took("bus_loop_run")
       => /\ IsPrefix(trace, LifecycleOrder)
          /\ pc = "done" => trace = LifecycleOrder /\ exit_status = 0
  /\ Took("bus_loop_return") => loop_quit
  /\ handlers # {} => bus # "none" /\ context # << >> /\ Took("bus_context_new")
  /\ (Took("bus_loop_run") /\ print_address) => PublishedCompletely
  /\ (Took("bus_loop_run") /\ ~print_address) => writes = << >>
  /\ pc = "loop" <=> (Took("bus_loop_run") /\ ~Took("bus_loop_return")
                      /\ pc \notin Ended)

\* C5, witness: a run with a requested publication has gone through the
\* loop and exited.
C5_Witness ==
  /\ pc = "done"
  /\ print_address
  /\ Len(trace) = 8
  /\ trace = LifecycleOrder

\* C6: once SIGTERM reached the handler while the event loop ran, the loop
\* is asked to stop, and the process, when it ends, has shut down and
\* released the bus instance and exited with status 0.
C6_TermExitsZero ==
  term_in_loop
    => /\ loop_quit
       /\ pc \in Ended => /\ pc = "done"
                          /\ exit_status = 0
                          /\ bus = "released"

\* C7, as stated: a SIGHUP delivered while the event loop ran went through
\* the handler, which noted it and asked the loop to stop, and the process,
\* when it ends, has exited with status 0.
C7_HupExitsZero ==
  hup_in_loop
    => /\ got_sighup
       /\ loop_quit
       /\ pc \in Ended => pc = "done" /\ exit_status = 0

\* C7, amended: the handler is installed for SIGTERM only, so a SIGHUP
\* delivered while the event loop runs never reaches it: got_sighup stays
\* false and the loop is asked to stop by SIGTERM alone; the SIGHUP has the
\* disposition the process was started with, and a process it ends has no
\* exit status.
C7_HupNotHandled ==
  /\ SIGHUP \notin handlers
  /\ ~got_sighup
  /\ loop_quit => term_handled
  /\ (hup_in_loop /\ ~term_handled)
       => /\ pc \in {"loop", "killed"}
          /\ bus = "live"
          /\ ~Took("bus_loop_return")
  /\ pc = "killed" => exit_status = -1 /\ ~Took("exit")

\* C7, witness: a SIGHUP delivered while the loop ran has ended the process.
C7_Witness ==
  /\ hup_in_loop
  /\ pc = "killed"
  /\ Took("bus_loop_run")

\* the diagnostics of the usage, validation, construction and write failures
FailureDiags ==
  {"usage", "no_config", "two_config", "two_addr", "invalid_fd", "new_failed",
   "write_failed"}

\* C8: a process that exited has status 0 or 1; it has status 0 only when
\* the token it stopped at is --version (the banner printed, no diagnostic)
\* or when the event loop ran and returned and the bus instance was then
\* shut down and released; every diagnostic is one of a failure, and a
\* process that printed one, or whose write of the address fell short or
\* failed, exited with status 1 with the event loop never run.
C8_ExitStatus ==
  /\ pc = "done" <=> exit_status \in {0, 1}
  /\ pc # "done" => exit_status = -1
  /\ exit_status = 0
       => \/ /\ arg = S_version
             /\ stdout_out = <<"version banner">>
             /\ stderr_out = << >>
             /\ bus = "none"
          \/ /\ TookThen("bus_loop_run", "bus_loop_return")
             /\ TookThen("bus_context_shutdown", "bus_context_unref")
             /\ bus = "released"
             /\ stdout_out = << >>
  /\ \A k \in DOMAIN stderr_out : stderr_out[k].msg \in FailureDiags
  /\ stderr_out # << >>
       => pc = "done" /\ exit_status = 1 /\ ~Took("bus_loop_run")
  /\ (\E k \in DOMAIN writes : writes[k].ret # writes[k].len)
       => /\ pc = "done" /\ exit_status = 1 /\ ~Took("bus_loop_run")
          /\ stderr_out = <<Diag("write_failed", "", << >>)>>
  /\ (pc = "done" /\ ~Took("bus_loop_run") /\ arg # S_version) => exit_status = 1

\* C8, witness: a short write of the address has ended the process with
\* status 1.
C8_Witness ==
  /\ pc = "done"
  /\ exit_status = 1
  /\ Len(writes) = 1
  /\ writes[1].ret > 0
  /\ writes[1].ret < writes[1].len

\* the value of a text of digits
RECURSIVE DecValue(_)
DecValue(d) ==
  IF d = << >> THEN 0
  ELSE DecValue(SubSeq(d, 1, Len(d) - 1)) * 10 + DigitVal(d[Len(d)])

\* the descriptor the address goes to: the explicit one, descriptor 1
\* when none was given
ResolvedFd == IF Len(addr_fd) > 0 THEN DecValue(Magnitude(addr_fd)) ELSE 1

\* the bytes a write transferred
Transferred(w) == SubSeq(w.buf, 1, IF w.ret < 0 THEN 0 ELSE w.ret)

\* the publication step has acted
AfterPublication ==
  bus # "none" /\ pc # "print_address"

\* C9, as stated: once the publication step has acted on a constructed
\* instance with the publication requested, exactly the address and a
\* newline were transferred to the resolved descriptor.
C9_AlwaysWritten ==
  (AfterPublication /\ print_address)
    => /\ Len(writes) = 1
       /\ writes[1].fd = ResolvedFd
       /\ Transferred(writes[1]) = address \o S_newline

\* C9, amended: with the publication requested and the instance
\* constructed, at most one write is made, of exactly the address and one
\* newline, whole, to the resolved descriptor; when it transfers all of it
\* the descriptor is closed if and only if its number is above 2, and
\* otherwise (a short write, a write error, or no memory for the text, when
\* no write is made) only a proper part, possibly none, was transferred,
\* nothing is closed and the process has exited with status 1; with no
\* publication requested nothing is written and nothing is closed.
C9_Publication ==
  /\ Len(writes) <= 1
  /\ closed \cap {0, 1, 2} = {}
  /\ ~print_address => writes = << >> /\ closed = {}
  /\ \A k \in DOMAIN writes :
       /\ print_address /\ bus # "none"
       /\ writes[k].fd = ResolvedFd
       /\ writes[k].buf = address \o S_newline
       /\ writes[k].start = 0
       /\ writes[k].len = Len(address) + 1
       /\ writes[k].ret \in -1..writes[k].len
  /\ (AfterPublication /\ print_address)
       => IF Len(writes) = 1 /\ writes[1].ret = writes[1].len
          THEN /\ Transferred(writes[1]) = address \o S_newline
               /\ closed = IF ResolvedFd > 2 THEN {ResolvedFd} ELSE {}
          ELSE /\ pc = "done" /\ exit_status = 1
               /\ closed = {}
               /\ \A k \in DOMAIN writes :
                    Len(Transferred(writes[k])) < Len(address) + 1
  /\ ~AfterPublication => writes = << >> /\ closed = {}

\* C9, witness: the address went whole to the explicit descriptor 3, which
\* was then closed.
C9_Witness ==
  /\ pc = "loop"
  /\ addr_fd = <<"3">>
  /\ writes = <<[fd |-> 3, buf |-> <<"u", ":", "a", "\n">>, start |-> 0,
                 len |-> 4, ret |-> 4]>>
  /\ closed = {3}

\* C10: when every token was accepted and no flag supplied a configuration
\* path, or only empty ones, the process prints the "No configuration file
\* specified." diagnostic and then the usage text, and exits with status 1
\* with no bus instance constructed.
C10_NoConfigExits ==
  [][(pc = "check_config" /\ \A k \in DOMAIN cfg_given : Len(cfg_given[k]) = 0)
       => /\ stderr_out' = stderr_out \o <<Diag("no_config", "", << >>), UsageDiag>>
          /\ pc' = "done"
          /\ exit_status' = 1
          /\ bus' = "none"
          /\ context' = << >>]_vars

\* C10, witness: an invocation with --print-address only has ended so.
C10_Witness ==
  /\ pc = "done"
  /\ argc = 2
  /\ arg = S_print_address
  /\ print_address
  /\ cfg_given = << >>
  /\ stderr_out = <<Diag("no_config", "", << >>), UsageDiag>>
  /\ exit_status = 1

(***************************************************************************)
(* The claims about dbus-errors.c.                                         *)
(***************************************************************************)
\* C11: dbus_move_error (src, NULL) on an initialised src, empty or set,
\* returns normally, leaves src empty and releases a message that src
\* owned, so that no allocation is retained.
C11_MoveToAbsent ==
  [][(call'.op = "move_error" /\ call'.dest = NULL)
       => LET src == call'.error[1]
          IN  /\ ~aborted'
              /\ errors'[src] = ErrorInit
              /\ ~errors[src].const_message
                   => ~heap'[errors[src].message[1].block]]_vars

\* C12: while no assertion has failed, every initialised error object has
\* its name and its message both present or both absent, whatever calls of
\* dbus_error_init, dbus_set_error_const, dbus_set_error (with or without an
\* allocation failure), dbus_move_error and dbus_error_free were made.
C12_NameAndMessage ==
  ~aborted
    => \A e \in initialized :
         (errors[e].name = NULL) <=> (errors[e].message = NULL)

\* a move has left one object set, name and message present, and the other
\* empty
C12_Witness ==
  /\ ~aborted
  /\ call.op = "move_error"
  /\ call.dest # NULL
  /\ call.dest # call.error
  /\ errors[call.dest[1]].name # NULL
  /\ errors[call.dest[1]].message # NULL
  /\ errors[call.error[1]].name = NULL
  /\ errors[call.error[1]].message = NULL

\* an object that is set and owns its message
HeapOwned(real) == real.name # NULL /\ ~real.const_message

\* the step is a call of the function that got past the NULL test and the
\* assertions, so that it stored an error in the object it was given
Stored(function) ==
  /\ call'.op = function
  /\ call'.error # NULL
  /\ ~aborted'

\* the step made a message that some object owns after it and that no object
\* owned before it
NewHeapMessage ==
  \E e \in initialized' :
    /\ HeapOwned(errors'[e])
    /\ \A o \in initialized :
         HeapOwned(errors[o]) => errors[o].message # errors'[e].message

\* the text holds no conversion of printf
Plain(text) == \A k \in DOMAIN text : text[k] # "%"

\* C13, as stated: a step makes a heap-owned message only if it is a
\* dbus_set_error with a format that got its allocation, and a dbus_set_error
\* with a NULL format leaves the object as dbus_set_error_const with the same
\* name and a NULL message would: same name, same text, const_message set.
C13_AbsentFormatAsConst ==
  [][/\ NewHeapMessage
          => Stored("set_error") /\ ~call'.absent /\ ~call'.oom
     /\ (Stored("set_error") /\ call'.absent)
          => LET e == call'.error[1]
             IN  errors'[e] =
                   dbus_set_error_const(Memory, call'.error,
                                        errors'[e].name, NULL).errors[e]]_vars

\* C13, amended: a step makes a heap-owned message exactly when it is a
\* dbus_set_error that got its allocation, with a format or with NULL; with
\* a NULL format the object has the name passed and owns a message on the
\* heap, whose text is what printf makes of the text dbus_set_error_const
\* would store: that text itself when it holds no conversion.
C13_HeapFromSetError ==
  [][/\ NewHeapMessage <=> (Stored("set_error") /\ ~call'.oom)
     /\ (Stored("set_error") /\ ~call'.oom)
          => LET e == call'.error[1]
             IN  /\ HeapOwned(errors'[e])
                 /\ errors'[e].message[1].block # 0
                 /\ heap'[errors'[e].message[1].block]
                 /\ ~heap[errors'[e].message[1].block]
     /\ (Stored("set_error") /\ ~call'.oom /\ call'.absent)
          => LET e == call'.error[1]
                 const == dbus_set_error_const(Memory, call'.error,
                                               errors'[e].name, NULL).errors[e]
             IN  /\ errors'[e].name = const.name
                 /\ errors'[e].message[1].text
                      = vsprintf(const.message[1].text, << >>)
                 /\ Plain(const.message[1].text)
                      => errors'[e].message[1].text = const.message[1].text
                 /\ const.const_message /\ ~errors'[e].const_message]_vars

\* dbus_set_error with a NULL format has stored the text of the table for
\* DBUS_ERROR_FAILED in a block of the heap that the object owns
C13_Witness ==
  /\ call.op = "set_error"
  /\ call.absent
  /\ ~call.oom
  /\ ~aborted
  /\ call.error # NULL
  /\ LET real == errors[call.error[1]]
     IN  /\ real.name = Ptr(DBUS_ERROR_FAILED)
         /\ real.message[1].text = TEXT_FAILED
         /\ real.message[1].block # 0
         /\ heap[real.message[1].block]
         /\ ~real.const_message

\* the message of the generic out-of-memory error
OutOfMemoryText ==
  <<"N", "o", "t", " ", "e", "n", "o", "u", "g", "h", " ", "m", "e", "m",
    "o", "r", "y", " ", "a", "v", "a", "i", "l", "a", "b", "l", "e">>

\* the object after the fallback: the out-of-memory name, its message as a
\* constant
OutOfMemoryError ==
  [name |-> Ptr(DBUS_ERROR_NO_MEMORY), message |-> Ptr(Str(0, OutOfMemoryText)),
   const_message |-> TRUE]

\* C14: when dbus_malloc fails inside dbus_set_error the call returns with
\* the object set to the out-of-memory name and the message "Not enough
\* memory available", marked constant, no block allocated; dbus_error_free
\* on that object then empties it and releases nothing.
C14_OomFallback ==
  [][/\ (call'.op = "set_error" /\ call'.oom)
          => /\ ~aborted'
             /\ errors'[call'.error[1]] = OutOfMemoryError
             /\ heap' = heap
     /\ (call'.op = "free" /\ errors[call'.error[1]] = OutOfMemoryError)
          => /\ errors'[call'.error[1]] = ErrorInit
             /\ heap' = heap
             /\ ~freed_const'
             /\ ~freed_twice']_vars

\* dbus_set_error with a format was refused its block and has set the
\* out-of-memory error
C14_Witness ==
  /\ call.op = "set_error"
  /\ call.oom
  /\ ~call.absent
  /\ ~aborted
  /\ errors[call.error[1]] = OutOfMemoryError

\* C15: dbus_error_free on an initialised object, empty or set with a
\* constant or an owned message, returns with the object empty and
\* dbus_error_is_set false; it releases the block of an owned message and
\* nothing else; a second dbus_error_free changes nothing and releases
\* nothing; and dbus_set_error_const on the object then stores its error
\* without an assertion failure.
C15_FreeEmpties ==
  [][call'.op = "free"
       => LET e == call'.error[1]
          IN  /\ ~aborted'
              /\ errors'[e] = ErrorInit
              /\ ~dbus_error_is_set(Memory', call'.error).ret
              /\ call'.freed = IF HeapOwned(errors[e])
                               THEN {errors[e].message[1].block}
                               ELSE {}
              /\ heap' = [b \in 1..MaxBlocks |-> heap[b] /\ b \notin call'.freed]
              /\ ~freed_twice'
              /\ ~freed_const'
              /\ dbus_error_free(Memory', call'.error) = Memory'
              /\ \A n \in Names, t \in Messages \cup {<< >>} :
                   LET message == IF t = << >> THEN NULL ELSE Ptr(Str(0, t))
                       after == dbus_set_error_const(Memory', call'.error,
                                                     Ptr(n), message)
                   IN  /\ ~after.aborted
                       /\ after.errors[e].name = Ptr(n)]_vars

\* dbus_error_free has released the message of an object that owned one, and
\* the object is empty
C15_Witness ==
  /\ call.op = "free"
  /\ call.freed # {}
  /\ ~aborted
  /\ errors[call.error[1]] = ErrorInit
  /\ \A b \in call.freed : ~heap[b]

\* C16: dbus_move_error (src, dest) with dest an initialised empty object
\* leaves dest with the name, the message pointer and the const_message flag
\* that src had, and src empty; no block is allocated or released and no
\* text is copied.
C16_MoveTransfers ==
  [][(/\ call'.op = "move_error"
      /\ call'.dest # NULL
      /\ errors[call'.dest[1]] = ErrorInit)
       => LET src == call'.error[1]
              dest == call'.dest[1]
          IN  /\ ~aborted'
              /\ errors'[dest] = errors[src]
              /\ errors'[src] = ErrorInit
              /\ \A o \in initialized \ {src, dest} : errors'[o] = errors[o]
              /\ heap' = heap
              /\ call'.freed = {}
              /\ ~freed_twice'
              /\ ~freed_const']_vars

\* a move has handed an owned message from src to dest: dest owns the block,
\* which is still allocated, and src is empty
C16_Witness ==
  /\ call.op = "move_error"
  /\ call.dest # NULL
  /\ call.dest # call.error
  /\ ~aborted
  /\ HeapOwned(errors[call.dest[1]])
  /\ heap[errors[call.dest[1]].message[1].block]
  /\ errors[call.error[1]] = ErrorInit

\* C17: dbus_set_error_const and dbus_set_error on an object that is already
\* set, and dbus_move_error into a destination that is not NULL and already
\* set, end in an assertion failure, and the objects and the heap are as they
\* were before the call: nothing is overwritten.
C17_SingleSet ==
  [][/\ (/\ call'.op \in {"set_error_const", "set_error"}
         /\ call'.error # NULL
         /\ errors[call'.error[1]].name # NULL)
          => aborted' /\ errors' = errors /\ heap' = heap
     /\ (/\ call'.op = "move_error"
         /\ call'.dest # NULL
         /\ errors[call'.dest[1]].name # NULL)
          => aborted' /\ errors' = errors /\ heap' = heap]_vars

\* a move of a set object into another set object has failed its assertion,
\* and both still hold their errors
C17_Witness ==
  /\ aborted
  /\ call.op = "move_error"
  /\ call.dest # NULL
  /\ call.dest # call.error
  /\ errors[call.dest[1]].name # NULL
  /\ errors[call.error[1]].name # NULL

\* the static fallback table: for each name, the prose of its message
FallbackTable ==
  { [name |-> DBUS_ERROR_FAILED,
     text |-> <<"U", "n", "k", "n", "o", "w", "n", " ", "e", "r", "r", "o",
              "r">>],
    [name |-> DBUS_ERROR_NO_MEMORY,
     text |-> <<"N", "o", "t", " ", "e", "n", "o", "u", "g", "h", " ", "m",
              "e", "m", "o", "r", "y", " ", "a", "v", "a", "i", "l", "a",
              "b", "l", "e">>],
    [name |-> DBUS_ERROR_IO_ERROR,
     text |-> <<"E", "r", "r", "o", "r", " ", "r", "e", "a", "d", "i", "n",
              "g", " ", "o", "r", " ", "w", "r", "i", "t", "i", "n", "g",
              " ", "d", "a", "t", "a">>],
    [name |-> DBUS_ERROR_BAD_ADDRESS,
     text |-> <<"C", "o", "u", "l", "d", " ", "n", "o", "t", " ", "p", "a",
              "r", "s", "e", " ", "a", "d", "d", "r", "e", "s", "s">>],
    [name |-> DBUS_ERROR_NOT_SUPPORTED,
     text |-> <<"F", "e", "a", "t", "u", "r", "e", " ", "n", "o", "t", " ",
              "s", "u", "p", "p", "o", "r", "t", "e", "d">>],
    [name |-> DBUS_ERROR_LIMITS_EXCEEDED,
     text |-> <<"R", "e", "s", "o", "u", "r", "c", "e", " ", "l", "i", "m",
              "i", "t", "s", " ", "e", "x", "c", "e", "e", "d", "e", "d">>],
    [name |-> DBUS_ERROR_ACCESS_DENIED,
     text |-> <<"P", "e", "r", "m", "i", "s", "s", "i", "o", "n", " ", "d",
              "e", "n", "i", "e", "d">>],
    [name |-> DBUS_ERROR_AUTH_FAILED,
     text |-> <<"C", "o", "u", "l", "d", " ", "n", "o", "t", " ", "a", "u",
              "t", "h", "e", "n", "t", "i", "c", "a", "t", "e", " ", "t",
              "o", " ", "s", "e", "r", "v", "e", "r">>],
    [name |-> DBUS_ERROR_NO_SERVER,
     text |-> <<"N", "o", " ", "s", "e", "r", "v", "e", "r", " ", "a", "v",
              "a", "i", "l", "a", "b", "l", "e", " ", "a", "t", " ", "a",
              "d", "d", "r", "e", "s", "s">>],
    [name |-> DBUS_ERROR_TIMEOUT,
     text |-> <<"C", "o", "n", "n", "e", "c", "t", "i", "o", "n", " ", "t",
              "i", "m", "e", "d", " ", "o", "u", "t">>],
    [name |-> DBUS_ERROR_NO_NETWORK,
     text |-> <<"N", "e", "t", "w", "o", "r", "k", " ", "u", "n", "a", "v",
              "a", "i", "l", "a", "b", "l", "e">>],
    [name |-> DBUS_ERROR_ADDRESS_IN_USE,
     text |-> <<"A", "d", "d", "r", "e", "s", "s", " ", "a", "l", "r", "e",
              "a", "d", "y", " ", "i", "n", " ", "u", "s", "e">>],
    [name |-> DBUS_ERROR_DISCONNECTED,
     text |-> <<"D", "i", "s", "c", "o", "n", "n", "e", "c", "t", "e", "d",
              ".">>],
    [name |-> DBUS_ERROR_INVALID_ARGS,
     text |-> <<"I", "n", "v", "a", "l", "i", "d", " ", "a", "r", "g", "u",
              "m", "e", "m", "t", "s", ".">>],
    [name |-> DBUS_ERROR_NO_REPLY,
     text |-> <<"D", "i", "d", " ", "n", "o", "t", " ", "g", "e", "t", " ",
              "a", " ", "r", "e", "p", "l", "y", " ", "m", "e", "s", "s",
              "a", "g", "e", ".">>],
    [name |-> DBUS_ERROR_FILE_NOT_FOUND,
     text |-> <<"F", "i", "l", "e", " ", "d", "o", "e", "s", "n", "'", "t",
              " ", "e", "x", "i", "s", "t", ".">>] }

\* the message the table gives for the name: its prose, or the name itself
\* when the table does not have the name
FallbackText(n) ==
  IF \E r \in FallbackTable : r.name = n
  THEN (CHOOSE r \in FallbackTable : r.name = n).text
  ELSE n

\* the step is dbus_set_error_const (&e, n, NULL)
SetConstAbsent(e, n) ==
  Returns(dbus_set_error_const(Memory, Ptr(e), Ptr(n), NULL),
          [NoCall EXCEPT !.op = "set_error_const", !.error = Ptr(e),
                         !.absent = TRUE])

\* C18: dbus_set_error_const with a NULL message on an empty object stores
\* the name passed in and, as the message, the text of the fallback table
\* for a name of the table and the name itself for any other name.
C18_TableText ==
  [][\A e \in initialized, n \in Names :
       (errors[e] = ErrorInit /\ SetConstAbsent(e, n))
         => /\ ~aborted'
            /\ errors'[e].name = Ptr(n)
            /\ errors'[e].message # NULL
            /\ errors'[e].message[1].text = FallbackText(n)
            /\ errors'[e].const_message]_vars

\* dbus_set_error_const with a NULL message has stored the last name of the
\* table with the text of the table
C18_Witness ==
  /\ call.op = "set_error_const"
  /\ call.absent
  /\ ~aborted
  /\ call.error # NULL
  /\ errors[call.error[1]].name = Ptr(DBUS_ERROR_FILE_NOT_FOUND)
  /\ errors[call.error[1]].message[1].text
       = FallbackText(DBUS_ERROR_FILE_NOT_FOUND)
  /\ FallbackText(DBUS_ERROR_FILE_NOT_FOUND) # DBUS_ERROR_FILE_NOT_FOUND

(***************************************************************************)
(* The claim about the signal handler and the bus instance.                *)
(***************************************************************************)
\* C19: whenever signal_handler can run, that is from its installation
\* until the process has ended, the bus instance that the global context
\* points to has been constructed and has not been released.
C19_BusLiveForHandler ==
  (SIGTERM \in handlers /\ pc \notin Ended)
    => /\ context # << >>
       /\ bus \in {"live", "shutdown"}

(***************************************************************************)
(* The claim about the ownership of messages across error objects.         *)
(***************************************************************************)
\* the object refers to a block of the heap
OnHeap(real) == real.message # NULL /\ real.message[1].block # 0

\* C20: while no assertion has failed, no block of the heap is the message of
\* two error objects, every block an object refers to is allocated and owned
\* by that object, every constant message is marked constant, and dbus_free
\* was never given a block twice nor a constant message.
C20_HeapDiscipline ==
  ~aborted
    => /\ \A e \in initialized, o \in initialized :
            (e # o /\ OnHeap(errors[e]) /\ OnHeap(errors[o]))
              => errors[e].message[1].block # errors[o].message[1].block
       /\ \A e \in initialized :
            OnHeap(errors[e])
              => heap[errors[e].message[1].block] /\ ~errors[e].const_message
       /\ \A e \in initialized :
            (errors[e].message # NULL /\ ~OnHeap(errors[e]))
              => errors[e].const_message
       /\ ~freed_twice
       /\ ~freed_const

\* both objects own a message with the same text, each in a block of its own,
\* the second set by a dbus_set_error that got its allocation
C20_Witness ==
  /\ ~aborted
  /\ \E e \in initialized, o \in initialized :
       /\ e # o
       /\ HeapOwned(errors[e]) /\ OnHeap(errors[e])
       /\ HeapOwned(errors[o]) /\ OnHeap(errors[o])
       /\ errors[e].message[1].text = errors[o].message[1].text
       /\ errors[e].message[1].block # errors[o].message[1].block
  /\ call.op = "set_error"
  /\ ~call.oom

=============================================================================
